---- MODULE Spec2Model ----
(***************************************************************************)
(* dtdrafts: a command line tool that fetches the unpublished articles of *)
(* a dev.to account page by page, caches them in a file and filters them. *)
(*                                                                         *)
(* Spec        one invocation of the binary (src/main.rs main) against a   *)
(*             disk (config file, cache file) and a remote server.         *)
(* SpecFilter  the pure filter functions search_articles and               *)
(*             get_draft_articles applied to bounded article lists.        *)
(* SpecDisplay display_articles of the library and of the binary applied   *)
(*             to bounded article lists.                                   *)
(*                                                                         *)
(* A Rust String is a sequence of one-character strings, Option<T> is a    *)
(* record [some, val], Result<T> is a record [ok, val, err]. Every         *)
(* character of the model is a cased letter; "Sigma", "sigma" and          *)
(* "final_sigma" stand for the Greek letters U+03A3, U+03C3 and U+03C2.    *)
(***************************************************************************)
EXTENDS Integers, Sequences, FiniteSets, TLC

\* ---------------------------------------------------------------- bounds
\* Pages the server answers with articles before it only sends empty pages.
MaxPages == 2
\* Longest article list handed to the filter functions in SpecFilter.
MaxArticles == 2

\* ------------------------------------------------------- program constants
per_page == 1000

\* ------------------------------------------------------------ Option, Result
None == [some |-> FALSE, val |-> <<>>]
Some(v) == [some |-> TRUE, val |-> v]

Ok(v) == [ok |-> TRUE, val |-> v, err |-> "none"]
Err(e) == [ok |-> FALSE, val |-> <<>>, err |-> e]

\* Result::unwrap_or_default() and Result::unwrap_or(d) on a Result.
unwrap_or(r, d) == IF r.ok THEN r.val ELSE d

\* ------------------------------------------------------------------ strings
\* char::to_lowercase on the letters the model uses; other characters are
\* their own lower case.
LowerChar(c) ==
    CASE c = "R" -> "r"
      [] c = "U" -> "u"
      [] c = "K" -> "k"
      [] c = "C" -> "c"
      [] c = "O" -> "o"
      [] c = "Sigma" -> "sigma"
      [] OTHER -> c

\* str::to_lowercase: every character replaced by its lower case, but a
\* capital sigma that ends a word (a cased letter before it, none after it)
\* becomes the final sigma.
to_lowercase(s) ==
    [i \in 1..Len(s) |->
        IF s[i] = "Sigma" /\ i > 1 /\ i = Len(s) THEN "final_sigma"
        ELSE LowerChar(s[i])]

\* Whether needle stands in haystack at position i.
starts_at(haystack, needle, i) ==
    \A j \in 1..Len(needle) : haystack[i + j - 1] = needle[j]

\* str::contains: scan the start positions from the left.
RECURSIVE find_from(_, _, _)
find_from(haystack, needle, i) ==
    IF i + Len(needle) - 1 > Len(haystack) THEN FALSE
    ELSE IF starts_at(haystack, needle, i) THEN TRUE
    ELSE find_from(haystack, needle, i + 1)

contains(haystack, needle) == find_from(haystack, needle, 1)

\* Iterator::any over a Vec.
RECURSIVE any_tag(_, _)
any_tag(tags, query_lower) ==
    IF tags = <<>> THEN FALSE
    ELSE IF contains(to_lowercase(Head(tags)), query_lower) THEN TRUE
    ELSE any_tag(Tail(tags), query_lower)

\* ----------------------------------------------------------------- Article
\* struct Article, with the fields the filter and the display read as
\* parameters.
Article(id, title, body_markdown, published, tags, slug) ==
    [id |-> id, title |-> title, description |-> None,
     body_markdown |-> body_markdown, url |-> <<"/">> \o slug,
     canonical_url |-> None, url_with_preview |-> None,
     published |-> published, created_at |-> None, updated_at |-> None,
     tags |-> tags, slug |-> slug,
     user |-> [username |-> <<"u", "s", "r">>]]

\* ------------------------------------------------------------ Filter Engine
\* The closure of search_articles' filter.
matches(article, query_lower) ==
    /\ ~article.published
    /\ \/ contains(to_lowercase(article.title), query_lower)
       \/ (article.body_markdown.some
           /\ contains(to_lowercase(article.body_markdown.val), query_lower))
       \/ any_tag(IF article.tags.some THEN article.tags.val ELSE <<>>, query_lower)

search_articles(articles, query) ==
    LET query_lower == to_lowercase(query)
    IN  SelectSeq(articles, LAMBDA article : matches(article, query_lower))

\* A faulty get_draft_articles: the filter without its negation.
get_published_articles(articles) ==
    SelectSeq(articles, LAMBDA article : article.published)

get_draft_articles(articles) ==
    SelectSeq(articles, LAMBDA article : ~article.published)

\* ------------------------------------------------------------- Presentation
\* format!("@https://dev.to/{}/{}/edit", username, slug) of the binary.
edit_url(article) ==
    <<"@https://dev.to/">> \o article.user.username \o <<"/">>
        \o article.slug \o <<"/edit">>

RECURSIVE display_entries(_, _)
display_entries(articles, i) ==
    IF i > Len(articles) THEN <<>>
    ELSE << [k |-> "title", i |-> i, title |-> articles[i].title],
            [k |-> "url", i |-> i, url |-> edit_url(articles[i])] >>
         \o display_entries(articles, i + 1)

\* display_articles of the binary: the lines it prints.
display_articles(articles) ==
    IF articles = <<>> THEN << [k |-> "no_drafts"] >>
    ELSE << [k |-> "count", n |-> Len(articles)] >> \o display_entries(articles, 1)

\* format!("https://dev.to/{}/{}/edit", username, slug) of the library.
lib_edit_url(article) ==
    <<"https://dev.to/">> \o article.user.username \o <<"/">>
        \o article.slug \o <<"/edit">>

RECURSIVE lib_display_entries(_, _)
lib_display_entries(articles, i) ==
    IF i > Len(articles) THEN <<>>
    ELSE << [k |-> "title", i |-> i, title |-> articles[i].title],
            [k |-> "url", i |-> i, url |-> lib_edit_url(articles[i])] >>
         \o lib_display_entries(articles, i + 1)

\* display_articles of the library (src/lib.rs): the lines it prints.
lib_display_articles(articles) ==
    IF articles = <<>> THEN << [k |-> "no_drafts"] >>
    ELSE << [k |-> "count", n |-> Len(articles)] >> \o lib_display_entries(articles, 1)

\* -------------------------------------------------------------------- disk
AbsentConfig == [st |-> "absent", api_key |-> <<>>]
MalformedConfig == [st |-> "malformed", api_key |-> <<>>]
ConfigFile(key) == [st |-> "ok", api_key |-> key]

\* ---- serde_json: a JSON document is a tree of values [t, v].
JNull == [t |-> "null", v |-> <<>>]
JBool(b) == [t |-> "bool", v |-> b]
JNum(n) == [t |-> "num", v |-> n]
JStr(s) == [t |-> "str", v |-> s]
JArr(items) == [t |-> "arr", v |-> items]
JObj(members) == [t |-> "obj", v |-> members]

\* Serialize for Option<String>: None is null.
ser_option_string(o) == IF o.some THEN JStr(o.val) ELSE JNull

\* A faulty Serialize for Option<Vec<String>>: None is written as [].
ser_option_tags_default(o) ==
    JArr(IF o.some THEN [i \in 1..Len(o.val) |-> JStr(o.val[i])] ELSE <<>>)

\* Serialize for Option<Vec<String>>.
ser_option_tags(o) ==
    IF o.some THEN JArr([i \in 1..Len(o.val) |-> JStr(o.val[i])]) ELSE JNull

\* #[derive(Serialize)] for Article and ArticleUser: one member per field, in
\* the order of the struct.
ser_article(a) ==
    JObj(<< <<"id", JNum(a.id)>>,
            <<"title", JStr(a.title)>>,
            <<"description", ser_option_string(a.description)>>,
            <<"body_markdown", ser_option_string(a.body_markdown)>>,
            <<"url", JStr(a.url)>>,
            <<"canonical_url", ser_option_string(a.canonical_url)>>,
            <<"url_with_preview", ser_option_string(a.url_with_preview)>>,
            <<"published", JBool(a.published)>>,
            <<"created_at", ser_option_string(a.created_at)>>,
            <<"updated_at", ser_option_string(a.updated_at)>>,
            <<"tags", ser_option_tags(a.tags)>>,
            <<"slug", JStr(a.slug)>>,
            <<"user", JObj(<< <<"username", JStr(a.user.username)>> >>)>> >>)

\* serde_json::to_string_pretty(articles)
to_string_pretty(list) == JArr([i \in 1..Len(list) |-> ser_article(list[i])])

\* The member `key` of a JSON object: Err if it stands twice, Ok(None) if it
\* is missing, Ok(Some(value)) otherwise.
member(obj, key) ==
    LET at == { i \in DOMAIN obj.v : obj.v[i][1] = key } IN
    IF Cardinality(at) > 1 THEN Err("cache_parse")
    ELSE IF at = {} THEN Ok(None)
    ELSE Ok(Some(obj.v[CHOOSE i \in at : TRUE][2]))

\* Deserialize for a field of type T (`t` names its JSON type): the member
\* must be there and of that type.
de_required(obj, key, t) ==
    LET m == member(obj, key) IN
    IF m.ok /\ m.val.some /\ m.val.val.t = t THEN Ok(m.val.val.v) ELSE Err("cache_parse")

\* Deserialize for Option<String>: a missing member and null are None.
de_option_string(obj, key) ==
    LET m == member(obj, key) IN
    IF ~m.ok THEN m
    ELSE IF ~m.val.some \/ m.val.val.t = "null" THEN Ok(None)
    ELSE IF m.val.val.t = "str" THEN Ok(Some(m.val.val.v))
    ELSE Err("cache_parse")

\* Deserialize for Option<Vec<String>>.
de_option_tags(obj, key) ==
    LET m == member(obj, key) IN
    IF ~m.ok THEN m
    ELSE IF ~m.val.some \/ m.val.val.t = "null" THEN Ok(None)
    ELSE IF m.val.val.t = "arr" /\ \A i \in DOMAIN m.val.val.v : m.val.val.v[i].t = "str"
    THEN Ok(Some([i \in 1..Len(m.val.val.v) |-> m.val.val.v[i].v]))
    ELSE Err("cache_parse")

\* #[derive(Deserialize)] for ArticleUser.
de_user(obj, key) ==
    LET m == member(obj, key) IN
    IF m.ok /\ m.val.some /\ m.val.val.t = "obj"
    THEN LET username == de_required(m.val.val, "username", "str") IN
         IF username.ok THEN Ok([username |-> username.val]) ELSE username
    ELSE Err("cache_parse")

\* #[derive(Deserialize)] for Article.
de_article(j) ==
    IF j.t # "obj" THEN Err("cache_parse")
    ELSE LET id == de_required(j, "id", "num")
             title == de_required(j, "title", "str")
             description == de_option_string(j, "description")
             body_markdown == de_option_string(j, "body_markdown")
             url == de_required(j, "url", "str")
             canonical_url == de_option_string(j, "canonical_url")
             url_with_preview == de_option_string(j, "url_with_preview")
             published == de_required(j, "published", "bool")
             created_at == de_option_string(j, "created_at")
             updated_at == de_option_string(j, "updated_at")
             tags == de_option_tags(j, "tags")
             slug == de_required(j, "slug", "str")
             user == de_user(j, "user")
         IN  IF /\ id.ok /\ title.ok /\ description.ok /\ body_markdown.ok /\ url.ok
                /\ canonical_url.ok /\ url_with_preview.ok /\ published.ok
                /\ created_at.ok /\ updated_at.ok /\ tags.ok /\ slug.ok /\ user.ok
             THEN Ok([id |-> id.val, title |-> title.val,
                      description |-> description.val,
                      body_markdown |-> body_markdown.val, url |-> url.val,
                      canonical_url |-> canonical_url.val,
                      url_with_preview |-> url_with_preview.val,
                      published |-> published.val, created_at |-> created_at.val,
                      updated_at |-> updated_at.val, tags |-> tags.val,
                      slug |-> slug.val, user |-> user.val])
             ELSE Err("cache_parse")

\* serde_json::from_str::<Vec<Article>>(content)
from_str(content) ==
    IF content.t = "arr" /\ \A i \in DOMAIN content.v : de_article(content.v[i]).ok
    THEN Ok([i \in 1..Len(content.v) |-> de_article(content.v[i]).val])
    ELSE Err("cache_parse")

\* The cache file: absent, unreadable or no JSON at all, or a JSON document.
AbsentCache == [st |-> "absent", content |-> JNull]
MalformedCache == [st |-> "malformed", content |-> JNull]
CacheFile(list) == [st |-> "ok", content |-> to_string_pretty(list)]

\* fs::create_dir_all + fs::write of `content` over `old`: the write succeeds,
\* or fails before the file is touched, or fails after truncating it.
fs_write(old, content, broken) ==
    { [ok |-> TRUE, file |-> content],
      [ok |-> FALSE, file |-> old],
      [ok |-> FALSE, file |-> broken] }

\* save_config(&Config { api_key }) over the config file `old`.
save_config(old, api_key) == fs_write(old, ConfigFile(api_key), MalformedConfig)

\* save_articles_cache(articles) over the cache file `old`.
save_articles_cache(old, list) == fs_write(old, CacheFile(list), MalformedCache)

load_config(file) ==
    IF file.st = "absent" THEN Err("missing_key")
    ELSE IF file.st = "malformed" THEN Err("config_parse")
    ELSE Ok(file.api_key)

load_articles_cache(file) ==
    IF file.st = "absent" THEN Ok(<<>>)
    ELSE IF file.st = "malformed" THEN Err("cache_parse")
    ELSE from_str(file.content)

\* ------------------------------------------------------------ sample inputs
Rust == <<"R", "u">>
Kot == <<"K", "o">>

A1 == Article(1, Rust, Some(<<"c", "r", "u">>), FALSE,
              Some(<< <<"r", "u">>, <<"c">> >>), <<"r", "t">>)
A2 == Article(2, Kot, Some(<<"k">>), TRUE,
              Some(<< <<"k", "o">> >>), <<"k", "g">>)
A3 == Article(3, <<"C">>, None, FALSE, None, <<"c", "t">>)

\* Non-empty pages the server may answer with.
Pages == { <<A1>>, <<A2, A3>>, <<A3, A1, A2>> }

\* Cache files found on disk when the invocation starts.
InitialCaches ==
    { AbsentCache, MalformedCache, CacheFile(<<>>), CacheFile(<<A2>>),
      CacheFile(<<A1, A2, A3>>) }

InitialConfigs == { AbsentConfig, MalformedConfig, ConfigFile(<<"k", "1">>) }

\* struct Cli after Cli::parse().
CliArgs ==
    [ query : { None, Some(<<"r", "u">>), Some(<<"K">>) },
      set_api_key : { None, Some(<<"k", "1">>), Some(<<"k", "2">>) },
      refresh : BOOLEAN,
      all : BOOLEAN ]

\* Inputs of the filter functions in SpecFilter.
FilterTitles == { Rust, <<"O", "Sigma", "a">> }
FilterBodies == { None, Some(<<"a", "r", "U">>), Some(<<"k">>) }
FilterTags == { None, Some(<<>>), Some(<< <<"c">>, <<"R", "u">> >>) }
FilterArticles ==
    { Article(1, t, b, p, g, <<"s">>) :
        t \in FilterTitles, b \in FilterBodies, p \in BOOLEAN, g \in FilterTags }
Queries ==
    { <<>>, <<"r", "u">>, <<"R", "U">>, <<"k">>, <<"c">>, <<"u", "r">>,
      <<"o", "sigma">>, <<"O", "Sigma">> }

SeqsUpTo(S, n) == UNION { [1..m -> S] : m \in 0..n }


\* -------------------------------------------------------------------- state
VARIABLES
    cli,          \* main: the parsed command line
    configFile,   \* ~/.dtdrafts/config.json
    cacheFile,    \* ~/.dtdrafts/articles_cache.json
    cache0,       \* history: the cache file when the invocation started
    pc,           \* main: where the invocation stands
    exit_code,    \* the process' exit code, -1 while it runs
    err,          \* the error main returned, "none" if none
    errors,       \* history: every Err a called function produced
    config,       \* main: Option of the api key load_config returned
    articles,     \* main: Option of the `articles` binding (line 232)
    all_articles, \* get_my_articles: the accumulated pages
    page,         \* get_my_articles: the page to request next
    result,       \* Option of what get_my_articles returned
    requests,     \* history: the GET requests sent
    served,       \* history: the server's answers, one per request
    output,       \* the lines printed to stdout
    calls,        \* history: the library functions main called, in order
    input,        \* SpecFilter: the article list given to a filter function
    query,        \* SpecFilter: the query given to search_articles
    op,           \* SpecFilter: the function applied, "none" before
    found         \* SpecFilter: what it returned

dvars == << cli, configFile, cacheFile, cache0, pc, exit_code, err, errors, config,
            articles, all_articles, page, result, requests, served, output, calls >>
fvars == << input, query, op, found >>
vars == << dvars, fvars >>

Call(f, arg) == [f |-> f, arg |-> arg]

\* The filter variables while the binary runs, and the binary's while the
\* filter functions are applied.
FilterIdle == input = <<>> /\ query = <<>> /\ op = "none" /\ found = <<>>

Init ==
    /\ cli \in CliArgs
    /\ configFile \in InitialConfigs
    /\ cacheFile \in InitialCaches
    /\ cache0 = cacheFile
    /\ pc = "start"
    /\ exit_code = -1
    /\ err = "none"
    /\ errors = {}
    /\ config = None
    /\ articles = None
    /\ all_articles = <<>>
    /\ page = 1
    /\ result = None
    /\ requests = <<>>
    /\ served = <<>>
    /\ output = <<>>
    /\ calls = <<>>
    /\ FilterIdle

\* ------------------------------------------------------------ API Client
\* What the server may answer to a request for page p: a transport failure,
\* a non-success status, a body that is no JSON list of articles, or a list.
Responses(p) ==
    { [kind |-> k, articles |-> <<>>] : k \in {"transport", "status", "response_parse", "ok"} }
    \cup (IF p <= MaxPages THEN { [kind |-> "ok", articles |-> a] : a \in Pages } ELSE {})

\* A faulty extend: the new page goes in front.
extend_prepends(all, new) == new \o all

\* all_articles.extend(articles)
extend(all, new) == all \o new

\* A faulty page increment: a page is skipped.
next_page_skips(p) == p + 2

\* page += 1
next_page(p) == p + 1

\* One turn of get_my_articles' loop: request `page`, then fail, break or
\* accumulate.
get_my_articles ==
    /\ pc = "fetch"
    /\ \E response \in Responses(page) :
        /\ requests' = Append(requests, [page |-> page, per_page |-> per_page])
        /\ served' = Append(served, response)
        /\ IF response.kind # "ok"
           THEN /\ result' = Some(Err(response.kind))
                /\ errors' = errors \cup {response.kind}
                /\ all_articles' = <<>>
                /\ pc' = "fetched"
                /\ UNCHANGED << page, output >>
           ELSE IF Len(response.articles) = 0
           THEN /\ result' = Some(Ok(all_articles))
                /\ output' = Append(output, [k |-> "done_fetch", n |-> Len(all_articles)])
                /\ all_articles' = <<>>
                /\ pc' = "fetched"
                /\ UNCHANGED << page, errors >>
           ELSE /\ all_articles' = extend(all_articles, response.articles)
                /\ output' = Append(output, [k |-> "page", page |-> page,
                                             n |-> Len(all_articles')])
                /\ page' = next_page(page)
                /\ UNCHANGED << pc, result, errors >>
    /\ UNCHANGED << cli, configFile, cacheFile, cache0, exit_code, err, config,
                    articles, calls, fvars >>

\* --------------------------------------------------------- Command Dispatcher
\* main returns Err(e): the process prints it and exits with a failure.
Fail(e) == pc' = "done" /\ exit_code' = 1 /\ err' = e

\* A faulty main.rs 211-217: the `return Ok(())` after saving the key is missing.
main_set_api_key_falls_through ==
    /\ pc = "start"
    /\ IF cli.set_api_key.some
       THEN \E w \in save_config(configFile, cli.set_api_key.val) :
            /\ configFile' = w.file
            /\ calls' = Append(calls, Call("save_config", cli.set_api_key.val))
            /\ IF w.ok
               THEN /\ output' = Append(output, [k |-> "key_saved"])
                    /\ pc' = "load_config"
                    /\ UNCHANGED << exit_code, err, errors >>
               ELSE /\ Fail("config_write")
                    /\ errors' = errors \cup {"config_write"}
                    /\ UNCHANGED output
       ELSE /\ pc' = "load_config"
            /\ UNCHANGED << configFile, calls, output, exit_code, err, errors >>
    /\ UNCHANGED << cli, cacheFile, cache0, config, articles, all_articles, page,
                    result, requests, served, fvars >>

\* main.rs 211-217: --set-api-key; without it main goes on to load_config.
main_set_api_key ==
    /\ pc = "start"
    /\ IF cli.set_api_key.some
       THEN \E w \in save_config(configFile, cli.set_api_key.val) :
            /\ configFile' = w.file
            /\ calls' = Append(calls, Call("save_config", cli.set_api_key.val))
            /\ IF w.ok
               THEN /\ output' = Append(output, [k |-> "key_saved"])
                    /\ pc' = "done"
                    /\ exit_code' = 0
                    /\ UNCHANGED << err, errors >>
               ELSE /\ Fail("config_write")
                    /\ errors' = errors \cup {"config_write"}
                    /\ UNCHANGED output
       ELSE /\ pc' = "load_config"
            /\ UNCHANGED << configFile, calls, output, exit_code, err, errors >>
    /\ UNCHANGED << cli, cacheFile, cache0, config, articles, all_articles, page,
                    result, requests, served, fvars >>

\* main.rs 220: load_config()?
main_load_config ==
    /\ pc = "load_config"
    /\ LET r == load_config(configFile) IN
        /\ calls' = Append(calls, Call("load_config", <<>>))
        /\ IF r.ok
           THEN /\ config' = Some(r.val)
                /\ pc' = "estimate"
                /\ UNCHANGED << exit_code, err, errors >>
           ELSE /\ Fail(r.err)
                /\ errors' = errors \cup {r.err}
                /\ UNCHANGED config
    /\ UNCHANGED << cli, configFile, cacheFile, cache0, articles, all_articles, page,
                    result, requests, served, output, fvars >>

\* main.rs 223-231: the refresh estimate.
main_estimate ==
    /\ pc = "estimate"
    /\ LET r == load_articles_cache(cacheFile)
           prev_cache_count == unwrap_or(IF r.ok THEN Ok(Len(r.val)) ELSE r, 0)
           est_pages == (prev_cache_count + per_page - 1) \div per_page
       IN  /\ calls' = Append(calls, Call("load_articles_cache", <<>>))
           /\ errors' = errors \cup (IF r.ok THEN {} ELSE {r.err})
           /\ output' = IF cli.refresh /\ prev_cache_count > 0
                        THEN Append(output, [k |-> "estimate", n |-> prev_cache_count,
                                             pages |-> est_pages])
                        ELSE output
    /\ pc' = "decide"
    /\ UNCHANGED << cli, configFile, cacheFile, cache0, exit_code, err, config, articles,
                    all_articles, page, result, requests, served, fvars >>

\* main.rs 232-234, 239-240: fetch, or take the cache.
main_decide ==
    /\ pc = "decide"
    /\ LET r == load_articles_cache(cacheFile)
           swallowed == IF ~cli.refresh /\ ~r.ok THEN {r.err} ELSE {}
           read == IF cli.refresh THEN <<>> ELSE << Call("load_articles_cache", <<>>) >>
       IN  IF cli.refresh \/ Len(unwrap_or(r, <<>>)) = 0
           THEN /\ output' = Append(output, [k |-> "fetching"])
                /\ calls' = calls \o read \o << Call("get_my_articles", config.val) >>
                /\ errors' = errors \cup swallowed
                /\ all_articles' = <<>>
                /\ page' = 1
                /\ pc' = "fetch"
                /\ UNCHANGED << articles, exit_code, err >>
           ELSE LET r2 == load_articles_cache(cacheFile) IN
                /\ calls' = calls \o read \o << Call("load_articles_cache", <<>>) >>
                /\ IF r2.ok
                   THEN /\ articles' = Some(r2.val)
                        /\ pc' = "filter"
                        /\ UNCHANGED << exit_code, err, errors >>
                   ELSE /\ Fail(r2.err)
                        /\ errors' = errors \cup {r2.err}
                        /\ UNCHANGED articles
                /\ UNCHANGED << output, all_articles, page >>
    /\ UNCHANGED << cli, configFile, cacheFile, cache0, config, result, requests,
                    served, fvars >>

\* A faulty main.rs 235-238: the fetch error is dropped with unwrap_or_default()
\* instead of being propagated with `?`.
main_fetched_unwrap_or_default ==
    /\ pc = "fetched"
    /\ LET fetched == unwrap_or(result.val, <<>>) IN
       \E w \in save_articles_cache(cacheFile, fetched) :
           /\ cacheFile' = w.file
           /\ calls' = Append(calls, Call("save_articles_cache", fetched))
           /\ IF w.ok
              THEN /\ output' = Append(output, [k |-> "cached"])
                   /\ articles' = Some(fetched)
                   /\ pc' = "filter"
                   /\ UNCHANGED << exit_code, err, errors >>
              ELSE /\ Fail("cache_write")
                   /\ errors' = errors \cup {"cache_write"}
                   /\ UNCHANGED << output, articles >>
    /\ UNCHANGED << cli, configFile, cache0, config, all_articles, page, result,
                    requests, served, fvars >>

\* main.rs 235-238: get_my_articles().await?, save_articles_cache(..)?
main_fetched ==
    /\ pc = "fetched"
    /\ IF ~result.val.ok
       THEN /\ Fail(result.val.err)
            /\ UNCHANGED << cacheFile, calls, output, articles, errors >>
       ELSE \E w \in save_articles_cache(cacheFile, result.val.val) :
            /\ cacheFile' = w.file
            /\ calls' = Append(calls, Call("save_articles_cache", result.val.val))
            /\ IF w.ok
               THEN /\ output' = Append(output, [k |-> "cached"])
                    /\ articles' = Some(result.val.val)
                    /\ pc' = "filter"
                    /\ UNCHANGED << exit_code, err, errors >>
               ELSE /\ Fail("cache_write")
                    /\ errors' = errors \cup {"cache_write"}
                    /\ UNCHANGED << output, articles >>
    /\ UNCHANGED << cli, configFile, cache0, config, all_articles, page, result,
                    requests, served, fvars >>

\* A faulty main.rs 243-263: the query is checked before --all.
main_filter_query_first ==
    /\ pc = "filter"
    /\ IF cli.query.some
       THEN LET filtered_articles == search_articles(articles.val, cli.query.val) IN
            /\ calls' = calls \o << Call("search_articles", filtered_articles),
                                    Call("display_articles", filtered_articles) >>
            /\ output' = output \o display_articles(filtered_articles)
       ELSE IF cli.all
       THEN LET drafts == get_draft_articles(articles.val) IN
            /\ calls' = calls \o << Call("get_draft_articles", drafts),
                                    Call("display_articles", drafts) >>
            /\ output' = output \o display_articles(drafts)
       ELSE /\ output' = Append(output, [k |-> "usage"])
            /\ UNCHANGED calls
    /\ pc' = "done"
    /\ exit_code' = 0
    /\ UNCHANGED << cli, configFile, cacheFile, cache0, err, errors, config, articles,
                    all_articles, page, result, requests, served, fvars >>

\* main.rs 243-263: filter and display.
main_filter ==
    /\ pc = "filter"
    /\ IF cli.all
       THEN LET drafts == get_draft_articles(articles.val) IN
            /\ calls' = calls \o << Call("get_draft_articles", drafts),
                                    Call("display_articles", drafts) >>
            /\ output' = output \o display_articles(drafts)
       ELSE IF cli.query.some
       THEN LET filtered_articles == search_articles(articles.val, cli.query.val) IN
            /\ calls' = calls \o << Call("search_articles", filtered_articles),
                                    Call("display_articles", filtered_articles) >>
            /\ output' = output \o display_articles(filtered_articles)
       ELSE /\ output' = Append(output, [k |-> "usage"])
            /\ UNCHANGED calls
    /\ pc' = "done"
    /\ exit_code' = 0
    /\ UNCHANGED << cli, configFile, cacheFile, cache0, err, errors, config, articles,
                    all_articles, page, result, requests, served, fvars >>

Next ==
    \/ main_set_api_key
    \/ main_load_config
    \/ main_estimate
    \/ main_decide
    \/ get_my_articles
    \/ main_fetched
    \/ main_filter

Spec == Init /\ [][Next]_vars

\* --------------------------------------------------- the filter functions
InitFilter ==
    /\ input \in SeqsUpTo(FilterArticles, MaxArticles)
    /\ query = <<>>
    /\ op = "none"
    /\ found = <<>>
    /\ cli = [query |-> None, set_api_key |-> None, refresh |-> FALSE, all |-> FALSE]
    /\ configFile = AbsentConfig
    /\ cacheFile = AbsentCache
    /\ cache0 = AbsentCache
    /\ pc = "done"
    /\ exit_code = -1
    /\ err = "none"
    /\ errors = {}
    /\ config = None
    /\ articles = None
    /\ all_articles = <<>>
    /\ page = 1
    /\ result = None
    /\ requests = <<>>
    /\ served = <<>>
    /\ output = <<>>
    /\ calls = <<>>

apply_search_articles ==
    /\ op = "none"
    /\ \E q \in Queries :
        /\ query' = q
        /\ found' = search_articles(input, q)
    /\ op' = "search_articles"
    /\ UNCHANGED << input, dvars >>

apply_get_draft_articles ==
    /\ op = "none"
    /\ found' = get_draft_articles(input)
    /\ op' = "get_draft_articles"
    /\ UNCHANGED << input, query, dvars >>

NextFilter ==
    \/ apply_search_articles
    \/ apply_get_draft_articles

SpecFilter == InitFilter /\ [][NextFilter]_vars

\* ------------------------------------------------------- display_articles
\* The binary's variables while a library function is applied on its own.
BinaryIdle ==
    /\ cli = [query |-> None, set_api_key |-> None, refresh |-> FALSE, all |-> FALSE]
    /\ configFile = AbsentConfig
    /\ pc = "done"
    /\ exit_code = -1
    /\ err = "none"
    /\ errors = {}
    /\ config = None
    /\ articles = None
    /\ all_articles = <<>>
    /\ page = 1
    /\ requests = <<>>
    /\ served = <<>>
    /\ output = <<>>

\* Articles given to display_articles: titles, slugs and authors vary.
DisplayArticles ==
    { [Article(1, t, None, FALSE, None, g) EXCEPT !.user = [username |-> u]] :
        t \in { Rust, <<"C">> },
        g \in { <<"r", "t">>, <<"c">> },
        u \in { <<"u", "s", "r">>, <<"t", "k">> } }

InitDisplay ==
    /\ input \in SeqsUpTo(DisplayArticles, MaxArticles)
    /\ query = <<>>
    /\ op = "none"
    /\ found = <<>>
    /\ cacheFile = AbsentCache
    /\ cache0 = AbsentCache
    /\ result = None
    /\ calls = <<>>
    /\ BinaryIdle

\* display_articles of src/lib.rs applied to `input`; `found` is what it prints.
apply_lib_display_articles ==
    /\ op = "none"
    /\ found' = lib_display_articles(input)
    /\ op' = "lib_display_articles"
    /\ UNCHANGED << input, query, dvars >>

\* display_articles of src/main.rs applied to `input`.
apply_main_display_articles ==
    /\ op = "none"
    /\ found' = display_articles(input)
    /\ op' = "main_display_articles"
    /\ UNCHANGED << input, query, dvars >>

NextDisplay ==
    \/ apply_lib_display_articles
    \/ apply_main_display_articles

SpecDisplay == InitDisplay /\ [][NextDisplay]_vars

\* ------------------------------------------------------- the article cache
\* Articles given to save_articles_cache: with and without tags and body,
\* with an empty tag list and an empty body, and with every optional field set.
NoTagsNoBody == A3
CacheArticles ==
    { A1, NoTagsNoBody,
      [A3 EXCEPT !.tags = Some(<<>>)],
      [A3 EXCEPT !.body_markdown = Some(<<>>)],
      [A2 EXCEPT !.description = Some(<<"d">>),
                 !.canonical_url = Some(<<"/", "c">>),
                 !.url_with_preview = Some(<<"/", "p">>),
                 !.created_at = Some(<<"t", "1">>),
                 !.updated_at = Some(<<"t", "2">>)] }

\* A cache file no save_articles_cache wrote: one article with the members of
\* its optional fields left out.
SparseCache ==
    [st |-> "ok",
     content |-> JArr(<< JObj(<< <<"user", JObj(<< <<"username", JStr(<<"t", "k">>)>> >>)>>,
                                <<"id", JNum(7)>>,
                                <<"title", JStr(Kot)>>,
                                <<"url", JStr(<<"/">>)>>,
                                <<"published", JBool(FALSE)>>,
                                <<"slug", JStr(<<"k">>)>> >>) >>)]

InitCache ==
    /\ input \in SeqsUpTo(CacheArticles, MaxArticles)
    /\ cacheFile \in InitialCaches \cup {SparseCache}
    /\ cache0 = cacheFile
    /\ query = <<>>
    /\ op = "none"
    /\ found = <<>>
    /\ result = None
    /\ calls = <<>>
    /\ BinaryIdle

\* save_articles_cache(&input), first thing or after the cache on disk was
\* loaded; cache0 keeps the file as it was before.
apply_save_articles_cache ==
    /\ op \in {"none", "loaded_before"}
    /\ \E w \in save_articles_cache(cacheFile, input) :
        /\ cacheFile' = w.file
        /\ op' = IF w.ok THEN "saved" ELSE "save_failed"
    /\ cache0' = cacheFile
    /\ calls' = Append(calls, Call("save_articles_cache", input))
    /\ UNCHANGED << input, query, found, result, cli, configFile, pc, exit_code,
                    err, errors, config, articles, all_articles, page, requests,
                    served, output >>

\* load_articles_cache(); `result` is what it returns, `found` the list of an
\* Ok.
apply_load_articles_cache ==
    /\ op \in {"none", "saved", "save_failed", "resaved"}
    /\ result' = Some(load_articles_cache(cacheFile))
    /\ found' = IF result'.val.ok THEN result'.val.val ELSE <<>>
    /\ op' = CASE op = "none" -> "loaded_before"
               [] op = "saved" -> "loaded"
               [] op = "save_failed" -> "loaded_after_failure"
               [] op = "resaved" -> "reloaded"
    /\ calls' = Append(calls, Call("load_articles_cache", <<>>))
    /\ UNCHANGED << input, query, cacheFile, cache0, cli, configFile, pc, exit_code,
                    err, errors, config, articles, all_articles, page, requests,
                    served, output >>

\* save_articles_cache(&found): the list just loaded is saved again.
apply_save_loaded_articles ==
    /\ op = "loaded"
    /\ result.val.ok
    /\ \E w \in save_articles_cache(cacheFile, found) :
        /\ cacheFile' = w.file
        /\ op' = IF w.ok THEN "resaved" ELSE "resave_failed"
    /\ calls' = Append(calls, Call("save_articles_cache", found))
    /\ UNCHANGED << input, query, found, result, cache0, cli, configFile, pc,
                    exit_code, err, errors, config, articles, all_articles, page,
                    requests, served, output >>

NextCache ==
    \/ apply_save_articles_cache
    \/ apply_load_articles_cache
    \/ apply_save_loaded_articles

SpecCache == InitCache /\ [][NextCache]_vars


\* ===================================================================== claims
\* ----------------------------------------------------- vocabulary of the claims
\* f was called by main.
Called(f) == \E i \in DOMAIN calls : calls[i].f = f

\* Lines display_articles prints.
IsDisplayLine(line) == line.k \in {"no_drafts", "count", "title", "url"}
FilteredOutput == \E i \in DOMAIN output : IsDisplayLine(output[i])
UsagePrinted == \E i \in DOMAIN output : output[i].k = "usage"

\* A request of this fetch failed: transport, status or body.
FetchFailed == \E i \in DOMAIN served : served[i].kind # "ok"

IsEmptyPage(r) == r.kind = "ok" /\ r.articles = <<>>
IsFullPage(r) == r.kind = "ok" /\ r.articles # <<>>

\* Articles on the pages served before page i.
RECURSIVE PageOffset(_)
PageOffset(i) == IF i <= 1 THEN 0 ELSE PageOffset(i - 1) + Len(served[i - 1].articles)

\* out is the subsequence of list whose elements satisfy P, in list's order.
IsSelection(out, list, P(_)) ==
    LET I == { i \in DOMAIN list : P(list[i]) } IN
    /\ Len(out) = Cardinality(I)
    /\ \A i \in I : out[Cardinality({ j \in I : j <= i })] = list[i]

\* Case folding and substrings, as the specification words them.
CasePairs ==
    { <<"R", "r">>, <<"U", "u">>, <<"K", "k">>, <<"C", "c">>, <<"O", "o">>,
      <<"Sigma", "sigma">>, <<"final_sigma", "sigma">> }
FoldChar(c) == IF \E p \in CasePairs : p[1] = c
               THEN (CHOOSE p \in CasePairs : p[1] = c)[2]
               ELSE c
Fold(s) == [i \in DOMAIN s |-> FoldChar(s[i])]
IsSubstring(n, h) == \E i \in 1..(Len(h) - Len(n) + 1) : SubSeq(h, i, i + Len(n) - 1) = n

IsDraft(a) == a.published = FALSE
QueryMatches(a, q) ==
    /\ IsDraft(a)
    /\ \/ IsSubstring(Fold(q), Fold(a.title))
       \/ a.body_markdown.some /\ IsSubstring(Fold(q), Fold(a.body_markdown.val))
       \/ a.tags.some /\ \E t \in DOMAIN a.tags.val : IsSubstring(Fold(q), Fold(a.tags.val[t]))

\* The invocation is past load_config, which succeeded, and has no --set-api-key.
ConfigLoaded == ~cli.set_api_key.some /\ config.some
\* main has decided between fetching and the cache (line 232).
Decided == pc \in {"fetch", "fetched", "filter", "done"}
CacheIsEmpty(c) == c.st = "absent" \/ (c.st = "ok" /\ c.content = JArr(<<>>))

\* C1: a fetch that fails at some page returns an error and none of the pages
\* accumulated before it; save_articles_cache is never called and the cache
\* file is what it was when the invocation started.
C1_FailedFetchDiscardsPages ==
    FetchFailed =>
        /\ result = Some(Err(served[Len(served)].kind))
        /\ all_articles = <<>>
        /\ articles = None
        /\ ~Called("save_articles_cache")
        /\ cacheFile = cache0
        /\ ~FilteredOutput
        /\ pc \in {"fetched", "done"}
        /\ pc = "done" => exit_code = 1 /\ err = served[Len(served)].kind

\* A fetch failed at page 2, after a page of articles, over a filled cache.
C1_Witness ==
    /\ pc = "done"
    /\ Len(served) >= 2
    /\ served[Len(served)].kind = "response_parse"
    /\ IsFullPage(served[1])
    /\ cache0 = CacheFile(<<A1, A2, A3>>)

\* C2: a successful get_my_articles returns the articles of pages 1..k-1 in
\* page order and in each page's order, k being the first empty page; nothing
\* is dropped or duplicated, and an empty page 1 gives the empty list.
C2_ResultIsConcatenationOfPages ==
    (result.some /\ result.val.ok) =>
        \E k \in DOMAIN served :
            /\ IsEmptyPage(served[k])
            /\ \A j \in 1..(k - 1) : ~IsEmptyPage(served[j])
            /\ Len(result.val.val) = PageOffset(k)
            /\ \A j \in 1..(k - 1) :
                /\ requests[j].page = j
                /\ \A i \in 1..Len(served[j].articles) :
                    result.val.val[PageOffset(j) + i] = served[j].articles[i]
            /\ k = 1 => result.val.val = <<>>

\* Two different pages of articles were fetched before the empty one.
C2_Witness ==
    /\ result.some /\ result.val.ok
    /\ Len(served) = 3
    /\ served[1].articles = <<A2, A3>>
    /\ served[2].articles = <<A1>>

\* C3: the requests of a fetch are for pages 1, 2, 3, ... in turn, each once,
\* and none follows an empty page or a failed request: one request if page 1
\* is empty, two if page 1 has articles and page 2 is empty.
C3_ConsecutivePagesUntilEmptyOrFailure ==
    /\ Len(requests) = Len(served)
    /\ \A i \in DOMAIN requests : requests[i].page = i
    /\ \A i \in 1..(Len(served) - 1) : IsFullPage(served[i])
    /\ pc = "fetch" => page = Len(requests) + 1
    /\ pc # "fetch" /\ served # <<>> => ~IsFullPage(served[Len(served)])
    /\ (served # <<>> /\ IsEmptyPage(served[1])) => Len(requests) = 1
    /\ (Len(served) >= 2 /\ IsFullPage(served[1]) /\ IsEmptyPage(served[2]))
           => Len(requests) = 2

\* Page 1 had articles, page 2 was empty, and the invocation has ended.
C3_Witness ==
    /\ pc = "done"
    /\ Len(requests) = 2
    /\ IsFullPage(served[1])
    /\ IsEmptyPage(served[2])


\* C4: with the config loaded and no --set-api-key, main fetches and overwrites
\* the cache with the fetched list if and only if --refresh is set or the
\* cache is empty (an absent file is an empty cache); otherwise it sends no
\* request, leaves the cache file alone and filters exactly the cached list.
C4_FetchIffRefreshOrEmptyCache ==
    (ConfigLoaded /\ Decided) =>
        /\ Called("get_my_articles") <=> (cli.refresh \/ CacheIsEmpty(cache0))
        /\ (Called("get_my_articles") /\ articles.some) =>
               /\ result.some /\ result.val.ok
               /\ articles.val = result.val.val
               /\ cacheFile = CacheFile(result.val.val)
        /\ ~Called("get_my_articles") =>
               /\ requests = <<>>
               /\ cacheFile = cache0
               /\ load_articles_cache(cache0).ok
               /\ articles = Some(load_articles_cache(cache0).val)

\* The statement of C4 for the invocations that do not start over a malformed
\* cache file.
C4_ExceptMalformedCache ==
    cache0.st # "malformed" => C4_FetchIffRefreshOrEmptyCache

\* C5: with the config loaded, no --set-api-key and no --refresh, a cache file
\* that is present and malformed ends the invocation with a failure and no
\* filtered output.
C5_MalformedCacheIsFatal ==
    (ConfigLoaded /\ ~cli.refresh /\ cache0.st = "malformed") =>
        /\ ~FilteredOutput
        /\ pc = "done" => exit_code # 0

\* C6 as claimed: with --set-api-key main writes exactly that key, ends with
\* success and does nothing else, whatever the other flags are.
C6_SetKeyAlwaysSucceeds ==
    cli.set_api_key.some =>
        /\ pc \in {"start", "done"}
        /\ pc = "done" =>
               /\ configFile = ConfigFile(cli.set_api_key.val)
               /\ exit_code = 0
        /\ config = None
        /\ requests = <<>>
        /\ cacheFile = cache0
        /\ \A i \in DOMAIN calls : calls[i].f = "save_config"
        /\ ~FilteredOutput /\ ~UsagePrinted

\* C6 as amended: with --set-api-key main calls save_config with exactly that
\* key and ends: with success and that key in the config file if the write
\* succeeded, with a failure if it did not. Either way, whatever the other
\* flags are, the previous config is not loaded, no request is sent, the
\* cache file is neither read nor written and nothing is filtered or displayed.
C6_SetKeyOnly ==
    cli.set_api_key.some =>
        /\ pc \in {"start", "done"}
        /\ pc = "done" =>
               /\ calls = << Call("save_config", cli.set_api_key.val) >>
               /\ \/ /\ exit_code = 0
                     /\ err = "none"
                     /\ configFile = ConfigFile(cli.set_api_key.val)
                  \/ /\ exit_code = 1
                     /\ err = "config_write"
        /\ config = None
        /\ requests = <<>>
        /\ cacheFile = cache0
        /\ \A i \in DOMAIN calls : calls[i].f = "save_config"
        /\ ~FilteredOutput /\ ~UsagePrinted

\* A key was saved although --query, --refresh and --all were given too.
C6_Witness ==
    /\ pc = "done"
    /\ exit_code = 0
    /\ cli.set_api_key = Some(<<"k", "2">>)
    /\ cli.query.some /\ cli.refresh /\ cli.all
    /\ configFile = ConfigFile(<<"k", "2">>)
    /\ cache0 = CacheFile(<<>>)

\* C7: without --set-api-key, filtered output comes only after load_config
\* and, if a fetch is made, after the fetch and the cache save succeeded; a
\* missing config file fails with the missing-key error before any request or
\* cache write; any config, network, parse or file-write error ends the
\* process with a non-zero exit code and no filtered output; an invocation
\* without error exits with zero.
C7_AnyErrorIsFatal ==
    ~cli.set_api_key.some =>
        /\ FilteredOutput =>
               /\ config.some
               /\ Called("get_my_articles") =>
                      /\ result.some /\ result.val.ok
                      /\ Called("save_articles_cache")
                      /\ cacheFile = CacheFile(result.val.val)
        /\ (configFile.st = "absent" /\ pc = "done") =>
               /\ err = "missing_key"
               /\ exit_code = 1
               /\ requests = <<>>
               /\ cacheFile = cache0
               /\ ~Called("save_articles_cache")
        /\ errors # {} =>
               /\ ~FilteredOutput
               /\ pc = "done" => exit_code # 0
        /\ (errors = {} /\ pc = "done") => exit_code = 0

\* The statement of C7 for the invocations that do not start over a malformed
\* cache file.
C7_ExceptMalformedCache ==
    cache0.st # "malformed" => C7_AnyErrorIsFatal

\* C8: once the article list is obtained main does exactly one of three
\* things: with --all it displays the drafts and ignores the query; otherwise
\* with a query it displays the search result; otherwise it prints the usage
\* and neither filters nor displays.
C8_ExactlyOneFilterAction ==
    (pc = "done" /\ articles.some) =>
        LET filters == SelectSeq(calls, LAMBDA c :
                           c.f \in {"get_draft_articles", "search_articles"})
            shown == SelectSeq(calls, LAMBDA c : c.f = "display_articles")
            lines == SelectSeq(output, IsDisplayLine)
            usage == SelectSeq(output, LAMBDA line : line.k = "usage")
        IN  IF cli.all
            THEN /\ Len(filters) = 1 /\ filters[1].f = "get_draft_articles"
                 /\ filters[1].arg = get_draft_articles(articles.val)
                 /\ shown = << Call("display_articles", filters[1].arg) >>
                 /\ lines = display_articles(filters[1].arg)
                 /\ usage = <<>>
            ELSE IF cli.query.some
            THEN /\ Len(filters) = 1 /\ filters[1].f = "search_articles"
                 /\ filters[1].arg = search_articles(articles.val, cli.query.val)
                 /\ shown = << Call("display_articles", filters[1].arg) >>
                 /\ lines = display_articles(filters[1].arg)
                 /\ usage = <<>>
            ELSE /\ filters = <<>>
                 /\ shown = <<>>
                 /\ lines = <<>>
                 /\ Len(usage) = 1

\* --all and a query were both given, and the drafts differ from the search
\* result.
C8_Witness ==
    /\ pc = "done"
    /\ cli.all
    /\ cli.query = Some(<<"K">>)
    /\ articles = Some(<<A1, A2, A3>>)
    /\ FilteredOutput

\* C9: search_articles returns, in the input's order, exactly the unpublished
\* articles whose case-folded title, body (if any) or one of whose tags (if
\* any) contains the case-folded query; no published article is returned and
\* queries that differ in letter case only give the same result.
C9_SearchSelectsMatchingDrafts ==
    op = "search_articles" =>
        /\ IsSelection(found, input, LAMBDA a : QueryMatches(a, query))
        /\ \A i \in DOMAIN found : ~found[i].published
        /\ \A q \in Queries : Fold(q) = Fold(query) => search_articles(input, q) = found

\* The statement of C9 where no capital sigma occurs in the query or in the
\* texts searched.
HasCapitalSigma(s) == \E i \in DOMAIN s : s[i] = "Sigma"
ArticleHasCapitalSigma(a) ==
    \/ HasCapitalSigma(a.title)
    \/ a.body_markdown.some /\ HasCapitalSigma(a.body_markdown.val)
    \/ a.tags.some /\ \E t \in DOMAIN a.tags.val : HasCapitalSigma(a.tags.val[t])
C9_ExceptCapitalSigma ==
    (/\ op = "search_articles"
     /\ ~HasCapitalSigma(query)
     /\ \A i \in DOMAIN input : ~ArticleHasCapitalSigma(input[i])) =>
        /\ IsSelection(found, input, LAMBDA a : QueryMatches(a, query))
        /\ \A i \in DOMAIN found : ~found[i].published
        /\ \A q \in Queries :
               (Fold(q) = Fold(query) /\ ~HasCapitalSigma(q))
                   => search_articles(input, q) = found

\* C10: get_draft_articles returns exactly the articles with published =
\* false, in the input's order; drafts and published articles add up to the
\* input; the input is not modified.
C10_DraftsAreTheUnpublished ==
    /\ [](op = "get_draft_articles" =>
            /\ IsSelection(found, input, IsDraft)
            /\ Len(found) + Cardinality({ i \in DOMAIN input : input[i].published })
                   = Len(input))
    /\ [][input' = input]_vars

\* One draft out of a published article followed by a draft.
C10_Witness ==
    /\ op = "get_draft_articles"
    /\ Len(input) = 2
    /\ input[1].published
    /\ found = << input[2] >>


\* What the specification says display_articles prints for `list`: one notice
\* for the empty list; otherwise the count, then title and edit URL of each
\* article in order, numbered from 1, the URL being https://dev.to/ followed
\* by the username, a slash, the slug and /edit.
PrintsAsSpecified(lines, list) ==
    IF Len(list) = 0
    THEN lines = << [k |-> "no_drafts"] >>
    ELSE /\ Len(lines) = 1 + 2 * Len(list)
         /\ lines[1] = [k |-> "count", n |-> Len(list)]
         /\ \A i \in DOMAIN list :
                /\ lines[2 * i] = [k |-> "title", i |-> i, title |-> list[i].title]
                /\ lines[2 * i + 1].k = "url"
                /\ lines[2 * i + 1].i = i
                /\ lines[2 * i + 1].url =
                       <<"https://dev.to/">> \o list[i].user.username \o <<"/">>
                           \o list[i].slug \o <<"/edit">>

\* C11: display_articles, in the library and in the binary, prints one
\* no-drafts notice for the empty list and otherwise the count of the list
\* followed, for each article in order from 1, by its title and the edit URL
\* https://dev.to/<username>/<slug>/edit.
C11_DisplayPrintsCountTitlesAndEditUrls ==
    op \in {"lib_display_articles", "main_display_articles"}
        => PrintsAsSpecified(found, input)

\* The statement of C11 for the library's display_articles alone.
C11_LibraryDisplay ==
    op = "lib_display_articles" => PrintsAsSpecified(found, input)

\* The statement of C11 for the binary's display_articles, but for the "@" its
\* edit URLs start with.
C11_BinaryDisplayButForUrlPrefix ==
    op = "main_display_articles" =>
        PrintsAsSpecified(
            [n \in DOMAIN found |->
                IF found[n].k = "url" /\ Head(found[n].url) = "@https://dev.to/"
                THEN [found[n] EXCEPT !.url = <<"https://dev.to/">> \o Tail(found[n].url)]
                ELSE found[n]],
            input)

\* ---- C12
\* Two article lists are identical: same length, same order, every field equal.
SameArticles(a, b) ==
    /\ Len(a) = Len(b)
    /\ \A i \in 1..Len(a) :
        /\ a[i].id = b[i].id
        /\ a[i].title = b[i].title
        /\ a[i].description = b[i].description
        /\ a[i].body_markdown = b[i].body_markdown
        /\ a[i].url = b[i].url
        /\ a[i].canonical_url = b[i].canonical_url
        /\ a[i].url_with_preview = b[i].url_with_preview
        /\ a[i].published = b[i].published
        /\ a[i].created_at = b[i].created_at
        /\ a[i].updated_at = b[i].updated_at
        /\ a[i].tags = b[i].tags
        /\ a[i].slug = b[i].slug
        /\ a[i].user.username = b[i].user.username

\* After a save that succeeded the file holds the saved list and nothing of
\* what it held before, and a load that follows returns that list.
SavedListComesBack ==
    /\ op \in {"saved", "loaded", "resaved", "reloaded"} =>
           /\ cacheFile.st = "ok"
           /\ cacheFile.content = to_string_pretty(input)
           /\ Len(cacheFile.content.v) = Len(input)
    /\ op \in {"loaded", "reloaded"} =>
           /\ result.some /\ result.val.ok
           /\ SameArticles(result.val.val, input)

\* C12: for every article list, with or without tags and bodies,
\* load_articles_cache after a save_articles_cache that succeeded returns the
\* saved list (same length, same order, every field equal); saving the list
\* just loaded leaves the content of the cache file as it was; and a save
\* replaces the whole file, whatever it held before.
C12_CacheRoundTripsAndIsReplaced ==
    /\ []SavedListComesBack
    /\ [][op' = "resaved" => cacheFile' = cacheFile]_vars

\* A list with an article without tags and body, saved over a cache of three
\* other articles, loaded, saved again and loaded again.
C12_Witness ==
    /\ op = "reloaded"
    /\ cache0 = CacheFile(<<A1, A2, A3>>)
    /\ Len(input) = 2
    /\ input[1] = NoTagsNoBody
    /\ ~input[1].tags.some /\ ~input[1].body_markdown.some
    /\ input[2].tags = Some(<<>>)
    /\ found = input
    /\ cacheFile = CacheFile(input)

====
